---------------------------- MODULE Spec2Model ----------------------------
(***************************************************************************)
(* Model of src/src/main.rs: the MBTiles `extract` command.                *)
(*                                                                         *)
(*   BoundingBox::parse        text "N,E,S,W" -> four f64 degrees          *)
(*   BoundingBox::tile_bounds  degrees + zoom -> TMS tile rectangle (i32)  *)
(*   extract_tiles             open, create schema, copy metadata, copy    *)
(*                             the selected tiles in one transaction       *)
(*                                                                         *)
(* Representation.  A string is a sequence of one-character strings.  An   *)
(* f64 is infinite, NaN, or finite: a sign, the 53 bits of its mantissa    *)
(* and the exponent of the last bit; its arithmetic rounds to nearest,     *)
(* ties to even.  An i32 is an integer in I32Min..I32Max; arithmetic that  *)
(* leaves that range panics in a build with overflow checks ("debug") and  *)
(* wraps modulo 2^32 otherwise ("release"); `f64 as i32` saturates.  An    *)
(* archive file is a record of its tables; a table is the sequence of its  *)
(* rows in rowid order.  The destination path holds no tile rows before    *)
(* the run.                                                                *)
(***************************************************************************)
EXTENDS Integers, Sequences, FiniteSets

VARIABLES
    build,        \* "debug" | "release": whether i32 overflow panics or wraps
    bbox_str,     \* the --bbox argument
    fs0,          \* the two files before the run: [input, output]
    fs,           \* the two files now (committed content)
    pc,           \* position inside extract_tiles
    failed_at,    \* the position where the run returned Err or panicked
    bbox,         \* the parsed BoundingBox
    meta_cur,     \* number of metadata rows already read from the source
    zoom_levels,  \* the Vec<i32> of zoom levels
    zoom_idx,     \* index in zoom_levels of the zoom level being copied
    tiles_cur,    \* source rows of the current query still to be read
    tx,           \* tile rows inserted inside the open transaction
    copied,       \* the counter printed at the end
    tb_in,        \* input of a stand-alone tile_bounds call
    tb_out        \* its result

vars == <<build, bbox_str, fs0, fs, pc, failed_at, bbox, meta_cur, zoom_levels,
          zoom_idx, tiles_cur, tx, copied, tb_in, tb_out>>

(***************************************************************************)
(* i32                                                                     *)
(***************************************************************************)
I32Max == 2147483647
I32Min == -I32Max - 1

Builds == {"debug", "release"}

\* a - b on i32: the wrapped value, and whether it overflowed
SubI32(a, b) ==
    IF b >= 0
    THEN IF a >= I32Min + b
         THEN [v |-> a - b, ovf |-> FALSE]
         ELSE [v |-> (((a - I32Min) - b) + I32Max) + 1, ovf |-> TRUE]
    ELSE IF a <= I32Max + b
         THEN [v |-> a - b, ovf |-> FALSE]
         ELSE [v |-> (((a - I32Max) - 1) - b) + I32Min, ovf |-> TRUE]

\* 2_i32.pow(zoom as u32): a negative zoom becomes an exponent >= 2^31
Pow2I32(zoom) ==
    IF zoom >= 0 /\ zoom <= 30 THEN [v |-> 2^zoom, ovf |-> FALSE]
    ELSE IF zoom = 31 THEN [v |-> I32Min, ovf |-> TRUE]
    ELSE [v |-> 0, ovf |-> TRUE]

\* exponent of n, for n a power of two or -2^31
Log2(n) == IF n = I32Min THEN 31 ELSE CHOOSE z \in 0..30 : 2^z = n

\* a clamp that forgets the upper end
Clamp_low(x, hi) == IF x > 0 THEN x ELSE 0

\* x.max(0).min(hi)
Clamp(x, hi) ==
    LET m == IF x > 0 THEN x ELSE 0
    IN  IF m < hi THEN m ELSE hi

(***************************************************************************)
(* f64: IEEE 754 binary64, round to nearest, ties to even                  *)
(***************************************************************************)
Zeros(n) == [i \in 1..n |-> 0]

\* a digit or bit sequence without its leading zeros
Strip(bs) ==
    IF \A i \in 1..Len(bs) : bs[i] = 0 THEN <<>>
    ELSE SubSeq(bs, CHOOSE i \in 1..Len(bs) :
                        bs[i] # 0 /\ \A j \in 1..(i - 1) : bs[j] = 0, Len(bs))

\* the len low bits of v, most significant first
BitsOf(v, len) == [i \in 1..len |-> (v \div 2^(len - i)) % 2]

\* the number a sequence of at most 31 bits stands for
RECURSIVE BitsVal(_)
BitsVal(bs) ==
    IF bs = <<>> THEN 0
    ELSE IF Len(bs) = 1 THEN bs[1]
    ELSE LET h == Len(bs) \div 2
         IN  BitsVal(SubSeq(bs, 1, h)) * 2^(Len(bs) - h) + BitsVal(SubSeq(bs, h + 1, Len(bs)))

\* a finite f64 is (-1)^neg * mant * 2^exp: mant is 53 bits, most significant
\* first, with a leading 1 unless exp = -1074 (zero and the subnormals)
Fin(neg, mant, exp) == [kind |-> "fin", neg |-> neg, mant |-> mant, exp |-> exp]
Inf(neg) == [kind |-> "inf", neg |-> neg, mant |-> <<>>, exp |-> 0]
NaN == [kind |-> "nan", neg |-> FALSE, mant |-> <<>>, exp |-> 0]
Zero(neg) == Fin(neg, Zeros(53), -1074)

\* the finite f64 with mantissa hi * 2^27 + lo
Double(neg, hi, lo, exp) == Fin(neg, BitsOf(hi, 26) \o BitsOf(lo, 27), exp)

\* the f64 nearest to (-1)^neg * (bits + t) * 2^w, where bits is a binary
\* number, 0 <= t < 1, and t > 0 exactly if sticky
RoundF64(neg, bits0, w, sticky) ==
    LET bits   == Strip(bits0)
        L      == Len(bits)
        lead   == (w + L) - 1
        pos    == IF lead - 52 > -1074 THEN lead - 52 ELSE -1074
        keep   == L - (pos - w)
        Bit(i) == IF i >= 1 /\ i <= L THEN bits[i] ELSE 0
        kept   == [i \in 1..53 |-> Bit((keep - 53) + i)]
        rest   == sticky \/ \E i \in (keep + 2)..L : i >= 1 /\ bits[i] = 1
        up     == Bit(keep + 1) = 1 /\ (rest \/ Bit(keep) = 1)
        ones   == \A i \in 1..53 : kept[i] = 1
        inc    == [i \in 1..53 |->
                      IF \A j \in (i + 1)..53 : kept[j] = 1 THEN 1 - kept[i] ELSE kept[i]]
        mant   == SubSeq(IF ~up THEN kept ELSE IF ones THEN <<1>> \o Zeros(52) ELSE inc, 1, 53)
        exp    == IF up /\ ones THEN pos + 1 ELSE pos
    IN  IF L = 0 THEN Zero(neg)
        ELSE IF mant[1] = 1 /\ exp + 52 > 1023 THEN Inf(neg)
        ELSE Fin(neg, mant, exp)

\* a + b + c for two bit sequences of one length and a carry c: the sum
\* bits s and the carry out c; 30 bits are added at a time
RECURSIVE AddBits(_, _, _)
AddBits(a, b, c) ==
    LET L  == Len(a)
        v  == BitsVal(a) + BitsVal(b) + c
        lo == AddBits(SubSeq(a, L - 29, L), SubSeq(b, L - 29, L), c)
        hi == AddBits(SubSeq(a, 1, L - 30), SubSeq(b, 1, L - 30), lo.c)
    IN  IF L <= 30 THEN [s |-> BitsOf(v % 2^L, L), c |-> v \div 2^L]
        ELSE [s |-> hi.s \o lo.s, c |-> hi.c]

\* a < b for two bit sequences of one length
LessBits(a, b) ==
    \E i \in 1..Len(a) : a[i] < b[i] /\ \A j \in 1..(i - 1) : a[j] = b[j]

\* (r * 2^Len(bits) + bits) / d for a remainder r < d < 2^10 carried in:
\* the quotient bits q and the remainder r; 20 bits are divided at a time
RECURSIVE DivBits(_, _, _)
DivBits(bits, d, r) ==
    LET L  == Len(bits)
        v  == r * 2^L + BitsVal(bits)
        hi == DivBits(SubSeq(bits, 1, 20), d, r)
        lo == DivBits(SubSeq(bits, 21, L), d, hi.r)
    IN  IF L <= 20 THEN [q |-> BitsOf(v \div d, L), r |-> v % d]
        ELSE [q |-> hi.q \o lo.q, r |-> lo.r]

\* fraction bits kept of an addend that is far smaller than the other
GuardBits == 64

\* x + k as f64, for an integer 0 < k < 2^10 (self.west + 180.0)
AddF64(x, k) ==
    LET \* |x| = m * 2^e with m odd
        last   == CHOOSE i \in 1..53 : x.mant[i] = 1 /\ \A j \in (i + 1)..53 : x.mant[j] = 0
        m      == Strip(SubSeq(x.mant, 1, last))
        e      == x.exp + (53 - last)
        cut    == e < -GuardBits
        down   == (-GuardBits) - e
        \* |x| as a binary number with f fraction bits; what is cut off
        \* leaves a 1 in one further place
        xb     == IF e >= 0 THEN m \o Zeros(e)
                  ELSE IF ~cut THEN m
                  ELSE (IF down >= Len(m) THEN <<>> ELSE SubSeq(m, 1, Len(m) - down)) \o <<1>>
        f      == IF e >= 0 THEN 0 ELSE IF ~cut THEN -e ELSE GuardBits + 1
        kb     == BitsOf(k, 10) \o Zeros(f)
        L      == IF Len(xb) > Len(kb) THEN Len(xb) ELSE Len(kb)
        a      == Zeros(L - Len(xb)) \o xb
        b      == Zeros(L - Len(kb)) \o kb
        Not(s) == [i \in 1..Len(s) |-> 1 - s[i]]
        sum    == AddBits(a, b, 0)
    IN  IF x.kind # "fin" THEN x
        ELSE IF \A i \in 1..53 : x.mant[i] = 0 THEN RoundF64(FALSE, BitsOf(k, 10), 0, FALSE)
        ELSE IF x.exp > 10 THEN x
        ELSE IF ~x.neg THEN RoundF64(FALSE, <<sum.c>> \o sum.s, -f, cut)
        ELSE IF a = b THEN Zero(FALSE)
        ELSE IF LessBits(a, b) THEN RoundF64(FALSE, AddBits(b, Not(a), 1).s, -f, cut)
        ELSE RoundF64(TRUE, AddBits(a, Not(b), 1).s, -f, cut)

\* x / d as f64, for an integer 0 < d < 2^10 (... / 360.0)
DivF64(x, d) ==
    LET r == DivBits(x.mant \o Zeros(11), d, 0)
    IN  IF x.kind # "fin" THEN x
        ELSE RoundF64(x.neg, r.q, x.exp - 11, r.r # 0)

\* (x * n as f64).floor() as i32, for n = 0, 2^z or -2^31: the product with
\* a finite x is exact, that of an infinite x and 0 is NaN; the cast
\* saturates, and NaN as i32 is 0
FloorAsI32(x, n) ==
    LET neg   == x.neg # (n < 0)
        m     == Strip(x.mant)
        e     == x.exp + Log2(n)
        ilen  == Len(m) + e
        ibits == IF e >= 0 THEN m \o Zeros(e)
                 ELSE IF ilen <= 0 THEN <<>>
                 ELSE SubSeq(m, 1, ilen)
        frac  == e < 0 /\ \E i \in 1..Len(m) : i > ilen /\ m[i] = 1
        iv    == BitsVal(ibits)
    IN  IF x.kind = "nan" \/ n = 0 THEN 0
        ELSE IF x.kind = "inf" THEN IF neg THEN I32Min ELSE I32Max
        ELSE IF m = <<>> THEN 0
        ELSE IF ilen > 31 THEN IF neg THEN I32Min ELSE I32Max
        ELSE IF ~neg THEN iv
        ELSE IF frac THEN (-iv) - 1
        ELSE -iv

(***************************************************************************)
(* BoundingBox                                                             *)
(***************************************************************************)
Digits == <<"0", "1", "2", "3", "4", "5", "6", "7", "8", "9">>

IsDigit(c) == \E i \in 1..10 : Digits[i] = c

DigitVal(c) == (CHOOSE i \in 1..10 : Digits[i] = c) - 1

\* str::split(','): the fields between the commas
RECURSIVE Split(_)
Split(s) ==
    IF \A i \in 1..Len(s) : s[i] # ","
    THEN <<s>>
    ELSE LET i == CHOOSE k \in 1..Len(s) :
                      s[k] = "," /\ \A j \in 1..(k - 1) : s[j] # ","
         IN  <<SubSeq(s, 1, i - 1)>> \o Split(SubSeq(s, i + 1, Len(s)))

\* char::is_whitespace: of the characters of Unicode's White_Space property
\* (U+0009 to U+000D, U+0020, U+0085, U+00A0, U+1680, U+2000 to U+200A,
\* U+2028, U+2029, U+202F, U+205F, U+3000) those that a string of this module
\* can be written with, which are the first nine
WhiteSpace == {"\t", "\n", "", "\f", "\r", " ", "", " ", " "}

\* str::trim(): without leading and trailing white space
RECURSIVE Trim(_)
Trim(s) ==
    IF s = <<>> THEN s
    ELSE IF Head(s) \in WhiteSpace THEN Trim(Tail(s))
    ELSE IF s[Len(s)] \in WhiteSpace THEN Trim(SubSeq(s, 1, Len(s) - 1))
    ELSE s

\* the number a sequence of at most 9 decimal digits stands for
RECURSIVE DecVal(_)
DecVal(ds) == IF ds = <<>> THEN 0
              ELSE 10 * DecVal(SubSeq(ds, 1, Len(ds) - 1)) + ds[Len(ds)]

\* one step of the conversion of a decimal integer to binary: the last bit
\* is split off and the digits are halved
HalveStep(s) ==
    IF \A i \in 1..Len(s.ds) : s.ds[i] = 0 THEN s
    ELSE [ds   |-> SubSeq([i \in 1..Len(s.ds) |->
                              ((IF i > 1 /\ s.ds[i - 1] % 2 = 1 THEN 10 ELSE 0) + s.ds[i]) \div 2],
                          1, Len(s.ds)),
          bits |-> <<s.ds[Len(s.ds)] % 2>> \o s.bits]

\* n steps of HalveStep; once the digits are 0 a step changes nothing
RECURSIVE HalveTimes(_, _)
HalveTimes(n, s) ==
    IF n = 0 THEN s
    ELSE IF n = 1 THEN HalveStep(s)
    ELSE LET t == HalveTimes(n \div 2, s)
         IN  IF \A i \in 1..Len(t.ds) : t.ds[i] = 0 THEN t
             ELSE HalveTimes(n - n \div 2, t)

\* most bits a conversion needs: 53, one to round, one to spare
NeedBits == 55

\* most fraction bits a conversion looks at: the smallest f64 is 2^-1074
MaxFracBits == 1080

\* the conversion of a decimal fraction to binary has all the bits it needs
FracDone(s) ==
    \/ s.sig >= NeedBits
    \/ Len(s.bits) >= MaxFracBits
    \/ \A i \in 1..Len(s.ds) : s.ds[i] = 0

\* one step of that conversion: the digits are doubled and the carry is the
\* next bit; sig counts the bits from the first 1 on
FracStep(s) ==
    IF FracDone(s) THEN s
    ELSE LET b == IF s.ds[1] >= 5 THEN 1 ELSE 0
         IN  [ds   |-> SubSeq([i \in 1..Len(s.ds) |->
                                  (2 * s.ds[i] + (IF i < Len(s.ds) /\ s.ds[i + 1] >= 5 THEN 1 ELSE 0)) % 10],
                              1, Len(s.ds)),
              bits |-> Append(s.bits, b),
              sig  |-> IF s.sig > 0 \/ b = 1 THEN s.sig + 1 ELSE 0]

\* n steps of FracStep
RECURSIVE FracTimes(_, _)
FracTimes(n, s) ==
    IF n = 0 THEN s
    ELSE IF n = 1 THEN FracStep(s)
    ELSE LET t == FracTimes(n \div 2, s)
         IN  IF FracDone(t) THEN t ELSE FracTimes(n - n \div 2, t)

\* the f64 nearest to the decimal number ip.fp (digit sequences)
DecimalToF64(neg, ip, fp) ==
    LET ib == HalveTimes(4 * Len(ip), [ds |-> ip, bits |-> <<>>]).bits
        lz == Len(fp) - Len(Strip(fp))
        n  == IF ib # <<>> THEN NeedBits ELSE 4 * (lz + 1) + NeedBits
        fr == FracTimes(n, [ds |-> fp, bits |-> <<>>, sig |-> Len(ib)])
    IN  RoundF64(neg, ib \o fr.bits, -Len(fr.bits), \E i \in 1..Len(fr.ds) : fr.ds[i] # 0)

\* ASCII lower case of the letters of "infinity", "nan" and the exponent mark
Lower(c) ==
    CASE c = "I" -> "i" [] c = "N" -> "n" [] c = "F" -> "f" [] c = "T" -> "t"
      [] c = "Y" -> "y" [] c = "A" -> "a" [] c = "E" -> "e" [] OTHER -> c

\* a parse that takes whatever it is given for 0 and never fails
ParseF64_lenient(s) == [ok |-> TRUE, v |-> Zero(FALSE)]

\* decimal exponents beyond which every f64 is infinite, or zero
MaxDecExp == 310
MinDecExp == -330

\* the f64 nearest to 0.D * 10^P, D the digits from the first to the last
\* that is not 0
DecimalScaled(neg, D, P) ==
    IF P > MaxDecExp THEN Inf(neg)
    ELSE IF P < MinDecExp THEN Zero(neg)
    ELSE IF P <= 0 THEN DecimalToF64(neg, <<>>, Zeros(-P) \o D)
    ELSE IF P >= Len(D) THEN DecimalToF64(neg, D \o Zeros(P - Len(D)), <<>>)
    ELSE DecimalToF64(neg, SubSeq(D, 1, P), SubSeq(D, P + 1, Len(D)))

\* the value of the digits all, point after the first `point` of them, times
\* ten to the exponent of digits ez (no leading zeros) and sign eneg
DecimalValue(neg, all, point, eneg, ez) ==
    LET lead == Strip(all)
        last == CHOOSE i \in 1..Len(lead) :
                    lead[i] # 0 /\ \A j \in (i + 1)..Len(lead) : lead[j] = 0
    IN  IF \A i \in 1..Len(all) : all[i] = 0 THEN Zero(neg)
        ELSE IF Len(ez) > 9 THEN IF eneg THEN Zero(neg) ELSE Inf(neg)
        ELSE DecimalScaled(neg, SubSeq(lead, 1, last),
                 (point - (Len(all) - Len(lead)))
                     + (IF eneg THEN -DecVal(ez) ELSE DecVal(ez)))

\* digits [. digits] with at least one digit, then the exponent's digits
ParseDigits(neg, ip, fp, marked, eneg, edigits) ==
    IF /\ \A i \in 1..Len(ip) : IsDigit(ip[i])
       /\ \A i \in 1..Len(fp) : IsDigit(fp[i])
       /\ Len(ip) + Len(fp) >= 1
       /\ ~marked \/ (edigits # <<>> /\ \A i \in 1..Len(edigits) : IsDigit(edigits[i]))
    THEN [ok |-> TRUE,
          v  |-> DecimalValue(neg, [i \in 1..(Len(ip) + Len(fp)) |-> DigitVal((ip \o fp)[i])],
                     Len(ip), eneg,
                     Strip([i \in 1..Len(edigits) |-> DigitVal(edigits[i])]))]
    ELSE [ok |-> FALSE, v |-> Zero(FALSE)]

\* the number before the exponent mark and the exponent after it
ParseNumber(neg, mant, marked, expo) ==
    LET esigned == expo # <<>> /\ Head(expo) \in {"+", "-"}
        dots    == {i \in 1..Len(mant) : mant[i] = "."}
        dot     == IF dots = {} THEN Len(mant) + 1
                   ELSE CHOOSE i \in dots : \A j \in dots : i <= j
    IN  ParseDigits(neg, SubSeq(mant, 1, dot - 1), SubSeq(mant, dot + 1, Len(mant)),
            marked, esigned /\ Head(expo) = "-", IF esigned THEN Tail(expo) ELSE expo)

\* what follows the sign, in lower case
ParseUnsigned(neg, low) ==
    LET es   == {i \in 1..Len(low) : low[i] = "e"}
        epos == IF es = {} THEN Len(low) + 1
                ELSE CHOOSE i \in es : \A j \in es : i <= j
    IN  IF low \in {<<"i", "n", "f">>, <<"i", "n", "f", "i", "n", "i", "t", "y">>}
        THEN [ok |-> TRUE, v |-> Inf(neg)]
        ELSE IF low = <<"n", "a", "n">> THEN [ok |-> TRUE, v |-> NaN]
        ELSE ParseNumber(neg, SubSeq(low, 1, epos - 1), es # {},
                 SubSeq(low, epos + 1, Len(low)))

\* str::parse::<f64>(): [+-] then inf, infinity or nan in any case, or
\* digits [. digits] [e [+-] digits] with a digit before the exponent; the
\* value is the f64 nearest to the decimal number
ParseF64(s) ==
    LET signed == s # <<>> /\ Head(s) \in {"+", "-"}
    IN  ParseUnsigned(signed /\ Head(s) = "-",
            [i \in 1..(IF signed THEN Len(s) - 1 ELSE Len(s)) |->
                Lower(s[IF signed THEN i + 1 ELSE i])])

\* BoundingBox::parse
parse(s) ==
    LET parts == Split(s)
    IN  IF Len(parts) # 4 THEN [ok |-> FALSE]
        ELSE LET f == [i \in 1..4 |-> ParseF64(Trim(parts[i]))]
             IN  IF \E i \in 1..4 : ~f[i].ok THEN [ok |-> FALSE]
                 ELSE [ok |-> TRUE, north |-> f[1].v, east |-> f[2].v,
                       south |-> f[3].v, west |-> f[4].v]

\* the f64 (1.0 - lat.to_radians().tan().asinh() / PI) / 2.0 as the standard
\* library computes it, for the latitudes the model's inputs use: pairs of
\* latitude and value
MercatorTable ==
    {
      \* 300000 -> 0.7096003591396136
      <<Double(FALSE, 38400000, 0, -34),
        Double(FALSE, 47620473, 133660924, -53)>>,
      \* 214568.3648 -> 0.4766814612754511
      <<Double(FALSE, 54929501, 52183853, -35),
        Double(FALSE, 63979102, 95577924, -54)>>,
      \* 100 -> 0.8877406020370051
      <<Double(FALSE, 52428800, 0, -46),
        Double(FALSE, 59575263, 44208568, -53)>>,
      \* 90 -> -5.551867248030861
      <<Double(FALSE, 47185920, 0, -46),
        Double(TRUE, 46572438, 1579698, -50)>>,
      \* 85.05112878 -> -6.227685034332353e-12
      <<Double(FALSE, 44591286, 27623168, -46),
        Double(TRUE, 57440256, 0, -90)>>,
      \* 85.0511 -> 9.267033490578669e-07
      <<Double(FALSE, 44591271, 15676631, -46),
        Double(FALSE, 65210950, 120586240, -73)>>,
      \* 85 -> 0.0016379147860541843
      <<Double(FALSE, 44564480, 0, -46),
        Double(FALSE, 56278323, 69511424, -62)>>,
      \* 75 -> 0.17729912095967099
      <<Double(FALSE, 39321600, 0, -46),
        Double(FALSE, 47593370, 51433366, -55)>>,
      \* 60 -> 0.2903996408605087
      <<Double(FALSE, 62914560, 0, -47),
        Double(FALSE, 38976780, 1115811, -54)>>,
      \* 45 -> 0.35972503691520497
      <<Double(FALSE, 47185920, 0, -47),
        Double(FALSE, 48281477, 21404364, -54)>>,
      \* 30 -> 0.41257521185848506
      <<Double(FALSE, 62914560, 0, -48),
        Double(FALSE, 55374907, 75801411, -54)>>,
      \* 15 -> 0.4578490471292611
      <<Double(FALSE, 62914560, 0, -49),
        Double(FALSE, 61451458, 117125684, -54)>>,
      \* 12.34567 -> 0.4654379841192239
      <<Double(FALSE, 51781493, 8546985, -49),
        Double(FALSE, 62470028, 101117262, -54)>>,
      \* 3 -> 0.49166285633707063
      <<Double(FALSE, 50331648, 0, -51),
        Double(FALSE, 65989871, 69733092, -54)>>,
      \* 2 -> 0.4944433158879836
      <<Double(FALSE, 33554432, 0, -51),
        Double(FALSE, 66363058, 64863598, -54)>>,
      \* 1 -> 0.49722208118489825
      <<Double(FALSE, 33554432, 0, -52),
        Double(FALSE, 66736018, 6451657, -54)>>,
      \* 0.01 -> 0.4999722222220812
      <<Double(FALSE, 42949672, 128849019, -59),
        Double(FALSE, 67105135, 97946575, -54)>>,
      \* 0.00005 -> 0.4999998611111111
      <<Double(FALSE, 54975581, 52183853, -67),
        Double(FALSE, 67108845, 48137039, -54)>>,
      \* 0 -> 0.5
      <<Double(FALSE, 0, 0, -1074),
        Double(FALSE, 33554432, 0, -53)>>,
      \* -0 -> 0.5
      <<Double(TRUE, 0, 0, -1074),
        Double(FALSE, 33554432, 0, -53)>>,
      \* -15 -> 0.5421509528707389
      <<Double(TRUE, 62914560, 0, -49),
        Double(FALSE, 36383134, 75654886, -53)>>,
      \* -30 -> 0.5874247881415149
      <<Double(TRUE, 62914560, 0, -48),
        Double(FALSE, 39421410, 29208158, -53)>>,
      \* -45 -> 0.640274963084795
      <<Double(TRUE, 47185920, 0, -47),
        Double(FALSE, 42968125, 56406682, -53)>>,
      \* -60 -> 0.7096003591394913
      <<Double(TRUE, 62914560, 0, -47),
        Double(FALSE, 47620473, 133659822, -53)>>,
      \* -75 -> 0.822700879040329
      <<Double(TRUE, 39321600, 0, -46),
        Double(FALSE, 55210521, 54250522, -53)>>,
      \* -85 -> 0.9983620852139459
      <<Double(TRUE, 44564480, 0, -46),
        Double(FALSE, 66998945, 53603756, -53)>>,
      \* -85.0511 -> 0.9999990732966509
      <<Double(TRUE, 44591271, 15676631, -46),
        Double(FALSE, 67108801, 108715149, -53)>>,
      \* -85.05112878 -> 1.0000000000062277
      <<Double(TRUE, 44591286, 27623168, -46),
        Double(FALSE, 33554432, 28047, -52)>>,
      \* -90 -> 6.551867248030861
      <<Double(TRUE, 47185920, 0, -46),
        Double(FALSE, 54961046, 1579698, -50)>>,
      \* -300000 -> 0.29039964086038633
      <<Double(TRUE, 38400000, 0, -34),
        Double(FALSE, 38976780, 1113607, -54)>>
    }

\* (1.0 - lat_rad.tan().asinh() / PI) / 2.0; the tangent of an infinite
\* angle is NaN
MercatorY(lat) ==
    IF lat.kind # "fin" THEN NaN
    ELSE (CHOOSE p \in MercatorTable : p[1] = lat)[2]

\* ((lon + 180.0) / 360.0 * n as f64).floor() as i32
LonToX(lon, n) == FloorAsI32(DivF64(AddF64(lon, 180), 360), n)

\* ((1.0 - lat_rad.tan().asinh() / PI) / 2.0 * n as f64).floor() as i32
LatToY(lat, n) == FloorAsI32(MercatorY(lat), n)

\* BoundingBox::tile_bounds
tile_bounds(self, zoom, bld) ==
    LET p         == Pow2I32(zoom)
        n         == p.v
        x_min     == LonToX(self.west, n)
        x_max     == LonToX(self.east, n)
        y_min     == LatToY(self.north, n)
        y_max     == LatToY(self.south, n)
        n1        == SubI32(n, 1)
        tms_y_min == SubI32(n1.v, y_max)
        tms_y_max == SubI32(n1.v, y_min)
    IN  IF bld = "debug" /\ (p.ovf \/ n1.ovf \/ tms_y_min.ovf \/ tms_y_max.ovf)
        THEN [panic |-> TRUE, b |-> <<0, 0, 0, 0>>]
        ELSE [panic |-> FALSE,
              b |-> <<Clamp(x_min, n1.v), Clamp(x_max, n1.v),
                      Clamp(tms_y_min.v, n1.v), Clamp(tms_y_max.v, n1.v)>>]

(***************************************************************************)
(* Inputs of a run                                                         *)
(***************************************************************************)
\* "85,180,-85,-180"
BBoxWorld == <<"8", "5", ",", "1", "8", "0", ",", "-", "8", "5", ",", "-", "1", "8", "0">>

\* "85.0511,180,-85.0511,-180"
BBoxMercator == <<"8", "5", ".", "0", "5", "1", "1", ",", "1", "8", "0", ",", "-", "8", "5", ".", "0", "5", "1", "1", ",", "-", "1", "8", "0">>

\* "85,180,0,0"
BBoxQuadrant == <<"8", "5", ",", "1", "8", "0", ",", "0", ",", "0">>

\* "\t85, 180 ,0 , 0\n"
BBoxSpaced == <<"\t", "8", "5", ",", " ", "1", "8", "0", " ", ",", "0", " ", ",", " ", "0", "\n">>

\* "8.5e1,1.8E2,0e0,0"
BBoxExponent == <<"8", ".", "5", "e", "1", ",", "1", ".", "8", "E", "2", ",", "0", "e", "0", ",", "0">>

\* "85,inf,-85,-Infinity"
BBoxInfinite == <<"8", "5", ",", "i", "n", "f", ",", "-", "8", "5", ",", "-", "I", "n", "f", "i", "n", "i", "t", "y">>

\* "1,2,3"
BBoxThree == <<"1", ",", "2", ",", "3">>

\* "85,x,0,0"
BBoxNotNumber == <<"8", "5", ",", "x", ",", "0", ",", "0">>

\* "85,180,,0"
BBoxEmptyField == <<"8", "5", ",", "1", "8", "0", ",", ",", "0">>

\* "85,180,0,0" with the white space U+000B, U+00A0 and U+0085 around fields
BBoxUnicodeSpace == <<"", "8", "5", ",", "1", "8", "0", " ", ",", "", "0", ",", "0">>

\* "85.05112878,180,-85.05112878,-180"
BBoxPrecise == <<"8", "5", ".", "0", "5", "1", "1", "2", "8", "7", "8", ",", "1", "8", "0", ",", "-", "8", "5", ".", "0", "5", "1", "1", "2", "8", "7", "8", ",", "-", "1", "8", "0">>

\* "300000,180,0.00005,-180"
BBoxFar == <<"3", "0", "0", "0", "0", "0", ",", "1", "8", "0", ",", "0", ".", "0", "0", "0", "0", "5", ",", "-", "1", "8", "0">>

\* "85,180,0,0" with the white space U+1680 around fields
BBoxOgham == <<" ", "8", "5", ",", "1", "8", "0", " ", " ", ",", " ", "0", ",", "0", " ">>

\* "nan,180,NaN,-180"
BBoxNaN == <<"n", "a", "n", ",", "1", "8", "0", ",", "N", "a", "N", ",", "-", "1", "8", "0">>

\* "1,2,3,4,5"
BBoxFive == <<"1", ",", "2", ",", "3", ",", "4", ",", "5">>

\* "85"
BBoxOne == <<"8", "5">>

\* "" (the empty string)
BBoxEmpty == <<>>

\* "85,180,0,0," (a fifth, empty field)
BBoxTrailingComma == <<"8", "5", ",", "1", "8", "0", ",", "0", ",", "0", ",">>

\* "85,18 0,0,0" (white space inside a field)
BBoxInnerSpace == <<"8", "5", ",", "1", "8", " ", "0", ",", "0", ",", "0">>

\* "85,180, ,0" with U+1680 for the third field (a field of white space only)
BBoxBlankField == <<"8", "5", ",", "1", "8", "0", ",", " ", ",", "0">>

\* "85,1e,0,.": an exponent without digits, a point without digits
BBoxNoDigits == <<"8", "5", ",", "1", "e", ",", "0", ",", ".">>

BBoxStrings == {BBoxWorld, BBoxMercator, BBoxQuadrant, BBoxSpaced, BBoxExponent, BBoxInfinite,
                BBoxUnicodeSpace, BBoxOgham, BBoxPrecise, BBoxFar, BBoxNaN,
                BBoxThree, BBoxFive, BBoxOne, BBoxEmpty, BBoxTrailingComma,
                BBoxNotNumber, BBoxEmptyField, BBoxInnerSpace, BBoxBlankField, BBoxNoDigits}

Text(s) == [type |-> "text", v |-> s]
Blob(s) == [type |-> "blob", v |-> s]
Null == [type |-> "null", v |-> ""]

Meta(n, v) == [name |-> n, value |-> v]
Tile(z, x, y, d) == [zoom_level |-> z, tile_column |-> x, tile_row |-> y, tile_data |-> d]

\* what a path holds: nothing ("absent"), something SQLite cannot open
\* ("dir"), a file that is not a database ("garbage"), or a database
File(k, tabs, m, t, idx) ==
    [kind |-> k, tables |-> tabs, metadata |-> m, tiles |-> t, tile_index |-> idx]

NoFile(k) == File(k, {}, <<>>, <<>>, FALSE)
EmptyDb == File("db", {}, <<>>, <<>>, FALSE)
Archive(m, t) == File("db", {"metadata", "tiles"}, m, t, TRUE)

MetaRows == <<Meta(Text("name"), Text("world")), Meta(Text("name"), Text("world")),
              Meta(Text("format"), Text("png"))>>

WorldTiles == <<Tile(0, 0, 0, Blob("a")), Tile(1, 0, 0, Blob("b")), Tile(1, 0, 1, Blob("c")),
                Tile(1, 1, 0, Blob("d")), Tile(1, 1, 1, Blob("e"))>>

\* the source paths of the model
Sources ==
    { NoFile("absent"), NoFile("dir"), NoFile("garbage"), EmptyDb,
      Archive(MetaRows, WorldTiles),
      \* a metadata value that is not TEXT
      Archive(<<Meta(Text("name"), Text("n")), Meta(Text("bounds"), Null)>>, WorldTiles),
      \* a tile whose tile_data is not a BLOB
      Archive(MetaRows, <<Tile(0, 0, 0, Blob("a")), Tile(1, 1, 1, Null)>>),
      \* a tiles table without unique index, holding one coordinate twice
      File("db", {"metadata", "tiles"}, MetaRows,
           <<Tile(0, 0, 0, Blob("a")), Tile(1, 1, 1, Blob("e")), Tile(1, 1, 1, Blob("f"))>>, FALSE),
      \* a zoom level whose 2^zoom does not fit an i32, and a zoom level 2
      Archive(MetaRows, <<Tile(2, 3, 3, Blob("g")), Tile(2, 0, 0, Blob("h")), Tile(0, 0, 0, Blob("a")),
                          Tile(31, 0, 0, Blob("i"))>>),
      \* metadata only
      File("db", {"metadata"}, MetaRows, <<>>, FALSE) }

\* the destination paths of the model: one the run creates, one it cannot
\* open, or a file that holds no tile rows (an empty file, a non-database,
\* what an earlier failed run left behind)
Destinations ==
    { NoFile("absent"), NoFile("dir"), NoFile("garbage"), EmptyDb,
      Archive(MetaRows, <<>>), File("db", {"tiles"}, <<>>, <<>>, FALSE) }

(***************************************************************************)
(* SQLite, as extract_tiles uses it                                        *)
(***************************************************************************)
\* Connection::open (read-write, create): a missing file is created empty
Connection_open(f) ==
    IF f.kind = "dir" THEN [ok |-> FALSE, file |-> f]
    ELSE IF f.kind = "absent" THEN [ok |-> TRUE, file |-> EmptyDb]
    ELSE [ok |-> TRUE, file |-> f]

\* CREATE TABLE t (...): refused when the file is no database or holds a
\* table t
CreateTable(f, t) ==
    IF f.kind # "db" \/ t \in f.tables THEN [ok |-> FALSE, file |-> f]
    ELSE [ok |-> TRUE, file |-> [f EXCEPT !.tables = @ \cup {t}, ![t] = <<>>]]

\* CREATE UNIQUE INDEX tile_index ON tiles (...)
CreateIndex(f) ==
    IF f.kind # "db" \/ "tiles" \notin f.tables \/ f.tile_index
    THEN [ok |-> FALSE, file |-> f]
    ELSE [ok |-> TRUE, file |-> [f EXCEPT !.tile_index = TRUE]]

\* whether a statement on table t can be prepared
HasTable(f, t) == f.kind = "db" /\ t \in f.tables

\* row.get::<_, String>(i): only a TEXT value converts
IsString(v) == v.type = "text"

\* row.get::<_, Vec<u8>>(i): only a BLOB value converts
IsBlob(v) == v.type = "blob"

RECURSIVE SortedSeq(_)
SortedSeq(S) ==
    IF S = {} THEN <<>>
    ELSE LET m == CHOOSE x \in S : \A y \in S : x <= y
         IN  <<m>> \o SortedSeq(S \ {m})

\* SELECT DISTINCT zoom_level FROM tiles ORDER BY zoom_level
DistinctZooms(f) == SortedSeq({f.tiles[i].zoom_level : i \in 1..Len(f.tiles)})

\* a range test that leaves out the upper end
Between_exclusive(v, lo, hi) == lo <= v /\ v < hi

\* v BETWEEN lo AND hi
Between(v, lo, hi) == lo <= v /\ v <= hi

\* a query that forgets the tile_column condition
SelectTiles_any_column(f, zoom, b) ==
    SelectSeq(f.tiles, LAMBDA t : /\ t.zoom_level = zoom
                                  /\ b[3] <= t.tile_row /\ t.tile_row <= b[4])

\* the rows of one zoom level in the order of the index tile_index: by
\* tile_column, then tile_row, then rowid
RECURSIVE IndexOrder(_)
IndexOrder(rows) ==
    IF rows = <<>> THEN <<>>
    ELSE LET Before(a, c) == \/ a.tile_column < c.tile_column
                             \/ a.tile_column = c.tile_column /\ a.tile_row < c.tile_row
             i == CHOOSE k \in 1..Len(rows) :
                      /\ \A j \in 1..Len(rows) : ~Before(rows[j], rows[k])
                      /\ \A j \in 1..(k - 1) : Before(rows[k], rows[j])
         IN  <<rows[i]>> \o IndexOrder(SubSeq(rows, 1, i - 1) \o SubSeq(rows, i + 1, Len(rows)))

\* SELECT ... WHERE zoom_level = ? AND tile_column BETWEEN ? AND ?
\*                                 AND tile_row BETWEEN ? AND ?
\* a source with the index tile_index is read through it, one without in
\* rowid order
SelectTiles(f, zoom, b) ==
    LET found == SelectSeq(f.tiles, LAMBDA t : /\ t.zoom_level = zoom
                                               /\ Between(t.tile_column, b[1], b[2])
                                               /\ Between(t.tile_row, b[3], b[4]))
    IN  IF f.tile_index THEN IndexOrder(found) ELSE found

\* the unique index tile_index refuses a second row of one coordinate
UniqueViolation(rows, t) ==
    \E i \in 1..Len(rows) : /\ rows[i].zoom_level = t.zoom_level
                            /\ rows[i].tile_column = t.tile_column
                            /\ rows[i].tile_row = t.tile_row

\* an insert that puts the new row first
InsertMeta_front(f, row) == [f EXCEPT !.metadata = <<row>> \o @]

\* INSERT INTO metadata, in autocommit mode
InsertMeta(f, row) == [f EXCEPT !.metadata = Append(@, row)]

\* tx.commit(): the rows inserted in the transaction become the file's
Commit(f, pending) == [f EXCEPT !.tiles = @ \o pending]

\* a drop that commits the rows inserted so far
Rollback_keeps(f, pending) == [f EXCEPT !.tiles = @ \o pending]

\* a transaction that was opened before the metadata copy
Rollback_metadata(f, pending) == [f EXCEPT !.metadata = <<>>]

\* drop of an uncommitted Transaction: its rows are discarded
Rollback(f, pending) == f

(***************************************************************************)
(* extract_tiles, step by step                                             *)
(***************************************************************************)
NoBBox == [ok |-> FALSE]

Fresh == /\ pc = "parse" /\ failed_at = "" /\ bbox = NoBBox /\ meta_cur = 0
         /\ zoom_levels = <<>> /\ zoom_idx = 0 /\ tiles_cur = <<>> /\ tx = <<>>
         /\ copied = 0

Init ==
    /\ build \in Builds
    /\ bbox_str \in BBoxStrings
    /\ fs0 \in [input : Sources, output : Destinations]
    /\ fs = fs0
    /\ Fresh
    /\ tb_in = <<>> /\ tb_out = <<>>

Terminal == pc \in {"done", "failed", "panicked"}

\* `?` on an Err, or a panic: the function is left, the open transaction is
\* dropped and with it rolled back
Leave(how, files) ==
    /\ pc' = how
    /\ failed_at' = pc
    /\ fs' = [files EXCEPT !.output = Rollback(@, tx)]
    /\ tx' = <<>>
    /\ UNCHANGED <<build, bbox_str, fs0, bbox, meta_cur, zoom_levels, zoom_idx,
                   tiles_cur, copied, tb_in, tb_out>>

Goto(next) ==
    /\ pc' = next
    /\ UNCHANGED <<build, bbox_str, fs0, failed_at, tb_in, tb_out>>

\* let bbox = BoundingBox::parse(bbox_str)?;
ParseBBox ==
    /\ pc = "parse"
    /\ LET r == parse(bbox_str)
       IN  IF r.ok
           THEN /\ Goto("open_input")
                /\ bbox' = r
                /\ UNCHANGED <<fs, meta_cur, zoom_levels, zoom_idx, tiles_cur, tx, copied>>
           ELSE Leave("failed", fs)

\* let input_conn = Connection::open(input_path)...?;
OpenInput ==
    /\ pc = "open_input"
    /\ LET r == Connection_open(fs.input)
       IN  IF r.ok
           THEN /\ Goto("open_output")
                /\ fs' = [fs EXCEPT !.input = r.file]
                /\ UNCHANGED <<bbox, meta_cur, zoom_levels, zoom_idx, tiles_cur, tx, copied>>
           ELSE Leave("failed", fs)

\* let output_conn = Connection::open(output_path)...?;
OpenOutput ==
    /\ pc = "open_output"
    /\ LET r == Connection_open(fs.output)
       IN  IF r.ok
           THEN /\ Goto("create_metadata")
                /\ fs' = [fs EXCEPT !.output = r.file]
                /\ UNCHANGED <<bbox, meta_cur, zoom_levels, zoom_idx, tiles_cur, tx, copied>>
           ELSE Leave("failed", fs)

\* output_conn.execute_batch(...)?: the three statements run one after the
\* other, each committed on its own; the batch stops at the first that fails
\* and what the earlier ones created stays.  First, CREATE TABLE metadata
CreateMetadataTable ==
    /\ pc = "create_metadata"
    /\ LET r == CreateTable(fs.output, "metadata")
       IN  IF r.ok
           THEN /\ Goto("create_tiles")
                /\ fs' = [fs EXCEPT !.output = r.file]
                /\ UNCHANGED <<bbox, meta_cur, zoom_levels, zoom_idx, tiles_cur, tx, copied>>
           ELSE Leave("failed", fs)

\* second, CREATE TABLE tiles
CreateTilesTable ==
    /\ pc = "create_tiles"
    /\ LET r == CreateTable(fs.output, "tiles")
       IN  IF r.ok
           THEN /\ Goto("create_index")
                /\ fs' = [fs EXCEPT !.output = r.file]
                /\ UNCHANGED <<bbox, meta_cur, zoom_levels, zoom_idx, tiles_cur, tx, copied>>
           ELSE Leave("failed", fs)

\* third, CREATE UNIQUE INDEX tile_index
CreateTileIndex ==
    /\ pc = "create_index"
    /\ LET r == CreateIndex(fs.output)
       IN  IF r.ok
           THEN /\ Goto("prepare_metadata")
                /\ fs' = [fs EXCEPT !.output = r.file]
                /\ UNCHANGED <<bbox, meta_cur, zoom_levels, zoom_idx, tiles_cur, tx, copied>>
           ELSE Leave("failed", fs)

\* input_conn.prepare("SELECT name, value FROM metadata")?; ... query_map
PrepareMetadata ==
    /\ pc = "prepare_metadata"
    /\ IF HasTable(fs.input, "metadata")
       THEN /\ Goto("copy_metadata")
            /\ meta_cur' = 0
            /\ UNCHANGED <<fs, bbox, zoom_levels, zoom_idx, tiles_cur, tx, copied>>
       ELSE Leave("failed", fs)

\* one turn of `for meta in metadata`
CopyMetadataRow ==
    /\ pc = "copy_metadata"
    /\ meta_cur < Len(fs.input.metadata)
    /\ LET row == fs.input.metadata[meta_cur + 1]
       IN  IF IsString(row.name) /\ IsString(row.value)
           THEN /\ Goto("copy_metadata")
                /\ fs' = [fs EXCEPT !.output = InsertMeta(@, row)]
                /\ meta_cur' = meta_cur + 1
                /\ UNCHANGED <<bbox, zoom_levels, zoom_idx, tiles_cur, tx, copied>>
           ELSE Leave("failed", fs)

\* the metadata rows are exhausted
MetadataDone ==
    /\ pc = "copy_metadata"
    /\ meta_cur = Len(fs.input.metadata)
    /\ Goto("zoom_levels")
    /\ UNCHANGED <<fs, bbox, meta_cur, zoom_levels, zoom_idx, tiles_cur, tx, copied>>

\* let zoom_levels: Vec<i32> = ...
ReadZoomLevels ==
    /\ pc = "zoom_levels"
    /\ IF HasTable(fs.input, "tiles")
       THEN /\ Goto("begin")
            /\ zoom_levels' = DistinctZooms(fs.input)
            /\ UNCHANGED <<fs, bbox, meta_cur, zoom_idx, tiles_cur, tx, copied>>
       ELSE Leave("failed", fs)

\* let tx = output_conn.unchecked_transaction()?; the two prepares; copied = 0
Begin ==
    /\ pc = "begin"
    /\ Goto(IF zoom_levels = <<>> THEN "commit" ELSE "next_zoom")
    /\ tx' = <<>>
    /\ copied' = 0
    /\ zoom_idx' = 1
    /\ UNCHANGED <<fs, bbox, meta_cur, zoom_levels, tiles_cur>>

\* bbox.tile_bounds(zoom) and select_stmt.query_map(...)
NextZoom ==
    /\ pc = "next_zoom"
    /\ LET zoom == zoom_levels[zoom_idx]
           r    == tile_bounds(bbox, zoom, build)
       IN  IF r.panic
           THEN Leave("panicked", fs)
           ELSE /\ Goto("copy_rows")
                /\ tiles_cur' = SelectTiles(fs.input, zoom, r.b)
                /\ UNCHANGED <<fs, bbox, meta_cur, zoom_levels, zoom_idx, tx, copied>>

\* one turn of `for tile in tiles`
CopyTileRow ==
    /\ pc = "copy_rows"
    /\ tiles_cur # <<>>
    /\ LET row == Head(tiles_cur)
           t   == Tile(zoom_levels[zoom_idx], row.tile_column, row.tile_row, row.tile_data)
       IN  IF IsBlob(t.tile_data) /\ ~UniqueViolation(fs.output.tiles \o tx, t)
           THEN /\ Goto("copy_rows")
                /\ tx' = Append(tx, t)
                /\ copied' = copied + 1
                /\ tiles_cur' = Tail(tiles_cur)
                /\ UNCHANGED <<fs, bbox, meta_cur, zoom_levels, zoom_idx>>
           ELSE Leave("failed", fs)

\* the rows of this zoom level are exhausted
ZoomDone ==
    /\ pc = "copy_rows"
    /\ tiles_cur = <<>>
    /\ Goto(IF zoom_idx = Len(zoom_levels) THEN "commit" ELSE "next_zoom")
    /\ zoom_idx' = zoom_idx + 1
    /\ UNCHANGED <<fs, bbox, meta_cur, zoom_levels, tiles_cur, tx, copied>>

\* drop(insert_tile); tx.commit()?
CommitTx ==
    /\ pc = "commit"
    /\ Goto("print")
    /\ fs' = [fs EXCEPT !.output = Commit(@, tx)]
    /\ tx' = <<>>
    /\ UNCHANGED <<bbox, meta_cur, zoom_levels, zoom_idx, tiles_cur, copied>>

\* println!("Extraction complete: ..."); Ok(())
PrintComplete ==
    /\ pc = "print"
    /\ Goto("done")
    /\ UNCHANGED <<fs, bbox, meta_cur, zoom_levels, zoom_idx, tiles_cur, tx, copied>>

\* println! panics when the write to stdout fails (a closed pipe, a full
\* device); the transaction is committed by then
PrintPanic ==
    /\ pc = "print"
    /\ Leave("panicked", fs)

\* any call on a connection may return an error of the storage (I/O error,
\* disk full, locked file); the `?` after it leaves the function
IoError ==
    /\ pc \in {"open_input", "open_output", "create_metadata", "create_tiles",
               "create_index", "prepare_metadata", "copy_metadata", "zoom_levels",
               "begin", "next_zoom", "copy_rows", "commit"}
    /\ Leave("failed", fs)

Next ==
    \/ ParseBBox
    \/ OpenInput
    \/ OpenOutput
    \/ CreateMetadataTable
    \/ CreateTilesTable
    \/ CreateTileIndex
    \/ PrepareMetadata
    \/ CopyMetadataRow
    \/ MetadataDone
    \/ ReadZoomLevels
    \/ Begin
    \/ NextZoom
    \/ CopyTileRow
    \/ ZoomDone
    \/ CommitTx
    \/ PrintComplete
    \/ PrintPanic
    \/ IoError

Spec == Init /\ [][Next]_vars

(***************************************************************************)
(* tile_bounds on its own                                                  *)
(***************************************************************************)
\* largest zoom level of a stand-alone call
MaxZoom == 33

\* the f64 a decimal number is read as
Degrees(s) == ParseF64(s).v

\* 90, 85.0511, 0, -85.0511, -90 and NaN
Latitudes == {Degrees(<<"9", "0">>), Degrees(<<"8", "5", ".", "0", "5", "1", "1">>), Degrees(<<"0">>), Degrees(<<"-", "8", "5", ".", "0", "5", "1", "1">>), Degrees(<<"-", "9", "0">>), NaN}

\* -180, 0, 180, 214000 and -inf
Longitudes == {Degrees(<<"-", "1", "8", "0">>), Degrees(<<"0">>), Degrees(<<"1", "8", "0">>), Degrees(<<"2", "1", "4", "0", "0", "0">>), Inf(TRUE)}

BoundsInit ==
    /\ tb_in \in [self : [north : Latitudes, east : Longitudes,
                          south : Latitudes, west : Longitudes],
                  zoom : -1..MaxZoom, build : Builds]
    /\ tb_out = <<>>
    /\ build = "release" /\ bbox_str = <<>> /\ fs0 = <<>> /\ fs = <<>>
    /\ pc = "idle" /\ failed_at = "" /\ bbox = NoBBox /\ meta_cur = 0
    /\ zoom_levels = <<>> /\ zoom_idx = 0 /\ tiles_cur = <<>> /\ tx = <<>>
    /\ copied = 0

CallTileBounds ==
    /\ tb_out = <<>>
    /\ tb_in # <<>>
    /\ tb_out' = <<tile_bounds(tb_in.self, tb_in.zoom, tb_in.build)>>
    /\ UNCHANGED <<build, bbox_str, fs0, fs, pc, failed_at, bbox, meta_cur,
                   zoom_levels, zoom_idx, tiles_cur, tx, copied, tb_in>>

BoundsNext == CallTileBounds

BoundsSpec == BoundsInit /\ [][BoundsNext]_vars

(***************************************************************************)
(* Properties                                                              *)
(***************************************************************************)
SourceTiles == fs0.input.tiles
OutputTiles == fs.output.tiles

SameCoordinate(a, b) ==
    /\ a.zoom_level = b.zoom_level
    /\ a.tile_column = b.tile_column
    /\ a.tile_row = b.tile_row

SourceUnique ==
    \A i, j \in 1..Len(SourceTiles) :
        SameCoordinate(SourceTiles[i], SourceTiles[j]) => i = j

\* t lies in the rectangle tile_bounds gives for t's own zoom level
InRectangle(t) ==
    LET r == tile_bounds(bbox, t.zoom_level, build)
    IN  /\ ~r.panic
        /\ r.b[1] <= t.tile_column /\ t.tile_column <= r.b[2]
        /\ r.b[3] <= t.tile_row /\ t.tile_row <= r.b[4]

OutputIsSelection ==
    /\ \A i \in 1..Len(SourceTiles) :
          InRectangle(SourceTiles[i]) =>
              /\ Cardinality({j \in 1..Len(OutputTiles) :
                                 SameCoordinate(OutputTiles[j], SourceTiles[i])}) = 1
              /\ \E j \in 1..Len(OutputTiles) : OutputTiles[j] = SourceTiles[i]
    /\ \A j \in 1..Len(OutputTiles) :
          \E i \in 1..Len(SourceTiles) :
              SourceTiles[i] = OutputTiles[j] /\ InRectangle(SourceTiles[i])

\* C1: after a successful run on a source whose tiles are unique by
\* coordinate, the destination holds every source tile inside the rectangle
\* of its zoom level exactly once, with its coordinate and payload, and no
\* other tile.
C1_Completeness == (pc = "done" /\ SourceUnique) => OutputIsSelection

C1_Witness ==
    /\ pc = "done" /\ SourceUnique
    /\ Len(OutputTiles) >= 2
    /\ Len(OutputTiles) < Len(SourceTiles)
    /\ bbox_str \in {BBoxQuadrant, BBoxSpaced, BBoxExponent, BBoxUnicodeSpace}

\* C2 as stated: the tile inserts of all zoom levels are one transaction:
\* when the run has ended, the destination tiles are the complete selection
\* (the run committed and returned Ok) or there are none (the run failed or
\* panicked); a part of the selection is never left behind.
C2_OneTransaction ==
    Terminal => IF pc = "done" THEN OutputIsSelection ELSE OutputTiles = <<>>

Committed == pc = "done" \/ (pc = "panicked" /\ failed_at = "print")

\* C2, amended: the tile inserts of all zoom levels are one transaction: when
\* the run has ended, the destination tiles are the complete selection (the
\* commit succeeded: the run returned Ok, or it panicked in the println! that
\* follows the commit) or there are none (the run failed or panicked before
\* the commit succeeded); a part of the selection is never left behind.
C2_AllOrNothing ==
    Terminal => IF Committed THEN OutputIsSelection ELSE OutputTiles = <<>>

C2_Witness ==
    /\ pc = "failed" /\ failed_at = "copy_rows"
    /\ zoom_idx >= 2 /\ copied >= 2
    /\ OutputTiles = <<>>

WorldRun ==
    /\ fs0.input = Archive(MetaRows, WorldTiles)
    /\ bbox_str = BBoxQuadrant
    /\ pc = "done"

\* C3 as stated: for the five-tile source and "85,180,0,0" the destination
\* holds 2 tiles (zoom 0 and one zoom-1 tile) and the count is 2.
C3_TwoTiles == WorldRun => (Len(OutputTiles) = 2 /\ copied = 2)

\* C3, amended: for the five-tile source and "85,180,0,0" the destination
\* holds 3 tiles, (0,0,0), (1,1,0) and (1,1,1), and the count is 3: south = 0
\* lies on the edge of the rows, and the row below the equator is selected
\* with the one above it.
C3_ThreeTiles ==
    WorldRun =>
        /\ copied = 3 /\ Len(OutputTiles) = 3
        /\ {OutputTiles[j] : j \in 1..Len(OutputTiles)} =
               {Tile(0, 0, 0, Blob("a")), Tile(1, 1, 0, Blob("d")), Tile(1, 1, 1, Blob("e"))}

C3_Witness == WorldRun /\ fs0.output.kind = "absent" /\ copied > 0

CommaCount(s) == Cardinality({i \in 1..Len(s) : s[i] = ","})

\* the text of s between its k-th comma and the next (k = 0: from the start)
Field(s, k) ==
    LET commas == {i \in 1..Len(s) : s[i] = ","}
        Before(i) == Cardinality({j \in commas : j < i})
    IN  SubSeq(s, (CHOOSE i \in 1..(Len(s) + 1) :
                       Before(i) = k /\ (i = 1 \/ s[i - 1] = ",")),
                  (CHOOSE i \in 0..Len(s) :
                       Before(i + 1) = k /\ (i = Len(s) \/ s[i + 1] = ",")))

\* s without the white space before its first and after its last character
\* that is no white space
Inner(s) ==
    LET solid == {i \in 1..Len(s) : s[i] \notin WhiteSpace}
    IN  IF solid = {} THEN <<>>
        ELSE SubSeq(s, CHOOSE i \in solid : \A j \in solid : i <= j,
                       CHOOSE i \in solid : \A j \in solid : i >= j)

Unsigned(s) == IF s # <<>> /\ s[1] \in {"+", "-"} THEN SubSeq(s, 2, Len(s)) ELSE s

AllDigits(s) ==
    \A i \in 1..Len(s) : s[i] \in {"0", "1", "2", "3", "4", "5", "6", "7", "8", "9"}

\* digits, with at most one point among them, and at least one digit
IsDecimal(s) ==
    \/ s # <<>> /\ AllDigits(s)
    \/ \E d \in 1..Len(s) :
           /\ s[d] = "." /\ Len(s) > 1
           /\ AllDigits(SubSeq(s, 1, d - 1)) /\ AllDigits(SubSeq(s, d + 1, Len(s)))

\* what Rust reads as an f64: a decimal number with an optional exponent, or
\* inf, infinity or nan in any case, after an optional sign
IsNumber(s) ==
    LET u == Unsigned(s)
        w == [i \in 1..Len(u) |-> Lower(u[i])]
    IN  \/ w = <<"i", "n", "f">> \/ w = <<"n", "a", "n">>
        \/ w = <<"i", "n", "f", "i", "n", "i", "t", "y">>
        \/ IsDecimal(u)
        \/ \E e \in 1..Len(u) :
               /\ u[e] \in {"e", "E"} /\ IsDecimal(SubSeq(u, 1, e - 1))
               /\ Unsigned(SubSeq(u, e + 1, Len(u))) # <<>>
               /\ AllDigits(Unsigned(SubSeq(u, e + 1, Len(u))))

\* not exactly four comma-separated fields, or a field that is no number
Malformed(s) ==
    \/ CommaCount(s) # 3
    \/ \E k \in 0..3 : ~IsNumber(Inner(Field(s, k)))

\* C4: a bounding-box string without exactly four comma-separated fields, or
\* with a field that is no number, makes the run fail in BoundingBox::parse
\* before anything else: no file is opened or created and no row written.
C4_MalformedBBox ==
    (Malformed(bbox_str) /\ pc # "parse") =>
        (pc = "failed" /\ failed_at = "parse" /\ fs = fs0)

C4_Witness ==
    /\ Malformed(bbox_str) /\ CommaCount(bbox_str) = 3 /\ pc = "failed"
    /\ fs0.output.kind = "absent" /\ fs.output.kind = "absent"
    /\ fs0.input.kind = "absent"

\* the steps of enumerating zoom levels, copying tiles and committing
TileSteps == {"zoom_levels", "begin", "next_zoom", "copy_rows", "commit"}

AfterMetadata == TileSteps \cup {"print"}

MetadataCopied ==
    \/ pc \in AfterMetadata \cup {"done"}
    \/ pc \in {"failed", "panicked"} /\ failed_at \in AfterMetadata

\* C5: once the metadata copy has completed, the destination metadata table
\* is the source metadata table: the same pairs, in the same order, each as
\* often as in the source, and nothing else.
C5_MetadataFidelity == MetadataCopied => fs.output.metadata = fs0.input.metadata

C5_Witness ==
    /\ MetadataCopied
    /\ Len(fs.output.metadata) = 3
    /\ fs.output.metadata[1] = fs.output.metadata[2]
    /\ fs.output.metadata[2] # fs.output.metadata[3]

Called == tb_out # <<>>

\* v lies in [0, 2^z - 1]; for z >= 31 every i32 is below 2^z
InGrid(v, z) == v >= 0 /\ (z <= 30 => v <= 2^z - 1)

\* C6 as stated: for every zoom level z >= 0 and every bounding box, each
\* of the four components tile_bounds returns lies in [0, 2^z - 1], also
\* where 2^z or the intermediate values do not fit an i32.
C6_InRange ==
    (Called /\ tb_in.zoom >= 0 /\ ~tb_out[1].panic) =>
        \A i \in 1..4 : InGrid(tb_out[1].b[i], tb_in.zoom)

\* north = 85.0511, east = 180, south = -85.0511, west = -180
WholeWorld == [north |-> Degrees(<<"8", "5", ".", "0", "5", "1", "1">>), east |-> Degrees(<<"1", "8", "0">>),
               south |-> Degrees(<<"-", "8", "5", ".", "0", "5", "1", "1">>), west |-> Degrees(<<"-", "1", "8", "0">>)]

\* b is (0, 2^z - 1, 0, 2^z - 1)
FullGrid(b, z) ==
    IF z <= 30 THEN b = <<0, 2^z - 1, 0, 2^z - 1>>
    ELSE z = 31 /\ b = <<0, I32Max, 0, I32Max>>

\* C7 as stated: for north=85.0511, east=180, south=-85.0511, west=-180,
\* tile_bounds(z) is (0, 2^z-1, 0, 2^z-1) at any zoom z.
C7_FullGridAnyZoom ==
    (Called /\ tb_in.self = WholeWorld /\ tb_in.zoom >= 0) =>
        (~tb_out[1].panic /\ FullGrid(tb_out[1].b, tb_in.zoom))

\* C7, amended: for that bounding box tile_bounds(z) is (0, 2^z-1, 0, 2^z-1)
\* at every zoom z from 0 to 20; from zoom 21 on, the rows next to the poles
\* (beyond latitude 85.0511) are outside the rectangle.
C7_FullGridToZoom20 ==
    (Called /\ tb_in.self = WholeWorld /\ tb_in.zoom >= 0 /\ tb_in.zoom <= 20) =>
        (~tb_out[1].panic /\ FullGrid(tb_out[1].b, tb_in.zoom))

C7_Witness ==
    /\ Called /\ tb_in.self = WholeWorld /\ tb_in.zoom = 20
    /\ tb_out[1].b = <<0, 1048575, 0, 1048575>>

\* C8 as stated: a source path that does not exist or holds no valid archive
\* makes the run fail at the open-source step, before the destination is
\* opened or its schema created; the run gets no further.
C8_FailsAtOpen ==
    fs0.input.kind \in {"absent", "garbage"} =>
        /\ pc \in {"parse", "open_input", "failed"}
        /\ pc = "failed" => failed_at \in {"parse", "open_input"}
        /\ fs.output = fs0.output

\* C9: a run that fails after the metadata copy has finished, while it
\* enumerates zoom levels, copies tiles or commits, leaves the destination
\* with every metadata row of the source and no tile row: the rollback of the
\* tile transaction does not undo the metadata inserts.
C9_MetadataSurvives ==
    (pc \in {"failed", "panicked"} /\ failed_at \in TileSteps) =>
        (fs.output.metadata = fs0.input.metadata /\ OutputTiles = <<>>)

C9_Witness ==
    /\ pc = "panicked" /\ failed_at \in TileSteps /\ copied >= 1
    /\ Len(fs.output.metadata) >= 1
    /\ fs.output.tiles = <<>>

\* C10 as stated: in every run the source is never mutated: its tables hold
\* the same rows, and nothing is created or written at the source path, also
\* when the path held no archive before the run.
C10_SourceUntouched == fs.input = fs0.input

=============================================================================
